---------------------------- MODULE Spec2Model ----------------------------
(***************************************************************************)
(* SafeBridge: the geometry correlation pipeline of                        *)
(* src/src/safebridge/pipeline.py (class DBPipeline) over the tables       *)
(* loaded by src/src/safebridge/database.py.                               *)
(*                                                                         *)
(* Tables are sets of rows (records); every row carries all the columns    *)
(* its table ever gets, a column that was not written yet (or is SQL       *)
(* NULL) holds NULL.  Which columns exist is recorded by `cols`, the set   *)
(* of <<table, column>> of the database; `ran` is the set of stages that   *)
(* were executed to their end or to an exception of Python, `err` the set  *)
(* of stages that ended in an error.  `gis` is the behaviour of the        *)
(* geometry routines the pipeline imports, `ns_uid` and `ew_uid` are the   *)
(* lists the two selectors returned, `raised` the exception of the last    *)
(* load_file, `edge_distance` the buffer_distance deck_edge_control was    *)
(* called with.                                                            *)
(*                                                                         *)
(* Geometry.  Coordinates are integers in quarter grid steps, inputs lie   *)
(* on multiples of 4, so that the midpoints (anchors) and the midpoints    *)
(* of midpoints (sector centers) the pipeline computes are integers too.   *)
(* A POINT is a one-vertex list, a LINESTRING a list of two or more        *)
(* vertices, a POLYGON an axis-parallel rectangle.  The inputs are drawn   *)
(* from the families on which the spatial functions below are exact.       *)
(***************************************************************************)
EXTENDS Integers, Sequences, FiniteSets, TLC

VARIABLES raw, deck, axis, support, ascending, descending, sectors, ran, err,
          cols, gis, ns_uid, ew_uid, raised, edge_distance

vars == <<raw, deck, axis, support, ascending, descending, sectors, ran, err,
          cols, gis, ns_uid, ew_uid, raised, edge_distance>>

-----------------------------------------------------------------------------
(* Bounds of the model.                                                    *)

\* Extent, in grid steps, of the strip the pipeline inputs lie on.
GridMax == 2
\* Extent, in grid steps, of the strip of the decks and supports of SpecSpan.
SpanGridMax == 3
\* Extent, in grid steps, of the square the free axis lines lie on.
AxisGridMax == 2
\* Largest number of vertices of a free axis line.
MaxVerts == 4
\* Largest number of points per orbit of the runs of the whole pipeline up
\* to the selectors.
MaxPoints == 2

-----------------------------------------------------------------------------
(* SQL NULL and nullable values.                                           *)

NULL == <<>>
Some(v) == <<v>>
Val(c) == c[1]

Abs(n) == IF n < 0 THEN -n ELSE n
Min2(a, b) == IF a < b THEN a ELSE b
Max2(a, b) == IF a > b THEN a ELSE b

\* The square root, exact on perfect squares (every distance between two
\* points of one axis-parallel line); otherwise rounded down, which keeps
\* "= 0" and "> 0".
Sqrt(n) == CHOOSE r \in 0..n : r * r <= n /\ (r + 1) * (r + 1) > n

-----------------------------------------------------------------------------
(* Spatial functions of the geometry store, as the pipeline's SQL uses     *)
(* them.                                                                   *)

ST_X(p) == p[1]
ST_Y(p) == p[2]

\* ST_StartPoint / ST_EndPoint are defined for LINESTRINGs only and give
\* NULL for every other geometry (a POINT included) and for NULL.
ST_StartPoint(g) == IF g # NULL /\ Len(Val(g)) >= 2 THEN Some(Val(g)[1]) ELSE NULL
ST_EndPoint(g) == IF g # NULL /\ Len(Val(g)) >= 2 THEN Some(Val(g)[Len(Val(g))]) ELSE NULL

ST_Reverse(l) == [i \in 1..Len(l) |-> l[Len(l) + 1 - i]]

Dist2(p, q) == (p[1] - q[1]) * (p[1] - q[1]) + (p[2] - q[2]) * (p[2] - q[2])
ST_Distance(p, q) == Sqrt(Dist2(p, q))

\* Length of a POINT (0) or of a LINESTRING.
RECURSIVE PathLength(_, _)
PathLength(l, i) == IF i >= Len(l) THEN 0 ELSE ST_Distance(l[i], l[i + 1]) + PathLength(l, i + 1)
ST_Length(l) == PathLength(l, 1)

\* ST_Centroid of a LINESTRING is the mean of its segment midpoints weighted
\* by segment length.  It is kept as numerators over a common denominator:
\* centroid = <<CentroidNum[1], CentroidNum[2]>> / CentroidDen.  A single
\* segment needs no weight (its length cancels).
SegWeight(l, i) == IF Len(l) = 2 THEN 1 ELSE ST_Distance(l[i], l[i + 1])
RECURSIVE CentroidSum(_, _, _)
CentroidSum(l, i, k) ==
    IF i >= Len(l) THEN 0
    ELSE SegWeight(l, i) * (l[i][k] + l[i + 1][k]) + CentroidSum(l, i + 1, k)
RECURSIVE WeightSum(_, _)
WeightSum(l, i) == IF i >= Len(l) THEN 0 ELSE SegWeight(l, i) + WeightSum(l, i + 1)
CentroidNum(l) == <<CentroidSum(l, 1, 1), CentroidSum(l, 1, 2)>>
CentroidDen(l) == 2 * WeightSum(l, 1)

\* ST_Centroid(ST_MakeLine(p, q)): the midpoint; NULL when an end is NULL.
MidPoint(p, q) ==
    IF p = NULL \/ q = NULL THEN NULL
    ELSE Some(<<(Val(p)[1] + Val(q)[1]) \div 2, (Val(p)[2] + Val(q)[2]) \div 2>>)

PointInRect(p, r) == r.xlo <= p[1] /\ p[1] <= r.xhi /\ r.ylo <= p[2] /\ p[2] <= r.yhi

\* ST_Within(point, polygon): the point lies in the interior.
ST_Within(p, r) == r.xlo < p[1] /\ p[1] < r.xhi /\ r.ylo < p[2] /\ p[2] < r.yhi

RectWithin(a, b) == b.xlo <= a.xlo /\ a.xhi <= b.xhi /\ b.ylo <= a.ylo /\ a.yhi <= b.yhi
InteriorsMeet(a, b) == a.xlo < b.xhi /\ b.xlo < a.xhi /\ a.ylo < b.yhi /\ b.ylo < a.yhi

\* ST_Intersects(polygon, polygon): the closed rectangles share a point.
ST_IntersectsPoly(a, b) == a.xlo <= b.xhi /\ b.xlo <= a.xhi /\ a.ylo <= b.yhi /\ b.ylo <= a.yhi

\* ST_Overlaps(polygon, polygon): the interiors meet and neither polygon
\* contains the other.
ST_Overlaps(a, b) == InteriorsMeet(a, b) /\ ~RectWithin(a, b) /\ ~RectWithin(b, a)

Cross(o, p, q) == (p[1] - o[1]) * (q[2] - o[2]) - (p[2] - o[2]) * (q[1] - o[1])
Sign(n) == IF n > 0 THEN 1 ELSE IF n < 0 THEN -1 ELSE 0
OnSegment(p, q, x) ==
    /\ Cross(p, q, x) = 0
    /\ Min2(p[1], q[1]) <= x[1] /\ x[1] <= Max2(p[1], q[1])
    /\ Min2(p[2], q[2]) <= x[2] /\ x[2] <= Max2(p[2], q[2])
SegmentsMeet(p, q, a, b) ==
    \/ /\ Sign(Cross(p, q, a)) * Sign(Cross(p, q, b)) < 0
       /\ Sign(Cross(a, b, p)) * Sign(Cross(a, b, q)) < 0
    \/ OnSegment(p, q, a) \/ OnSegment(p, q, b)
    \/ OnSegment(a, b, p) \/ OnSegment(a, b, q)
RectEdges(r) ==
    { <<<<r.xlo, r.ylo>>, <<r.xhi, r.ylo>>>>, <<<<r.xhi, r.ylo>>, <<r.xhi, r.yhi>>>>,
      <<<<r.xhi, r.yhi>>, <<r.xlo, r.yhi>>>>, <<<<r.xlo, r.yhi>>, <<r.xlo, r.ylo>>>> }
SegmentMeetsRect(p, q, r) ==
    \/ PointInRect(p, r) \/ PointInRect(q, r)
    \/ \E e \in RectEdges(r) : SegmentsMeet(p, q, e[1], e[2])

\* ST_Intersects(polygon, linestring).
ST_Intersects(r, l) == \E i \in 1..(Len(l) - 1) : SegmentMeetsRect(l[i], l[i + 1], r)

Clamp(v, lo, hi) == IF v < lo THEN lo ELSE IF v > hi THEN hi ELSE v
ClampPoint(p, r) == <<Clamp(p[1], r.xlo, r.xhi), Clamp(p[2], r.ylo, r.yhi)>>

\* ST_Intersection(polygon, linestring) of an intersecting pair: the part of
\* the line inside the polygon, in the direction of the line; a POINT when
\* they meet in a single point.  Exact for an axis-parallel segment and for
\* a line that lies in the polygon as a whole (all the inputs below).
ST_Intersection(r, l) ==
    LET c == [i \in 1..Len(l) |-> ClampPoint(l[i], r)]
    IN IF \A i \in 1..Len(c) : c[i] = c[1] THEN <<c[1]>> ELSE c

\* ST_Buffer(polygon, d): the polygon grown by d on every side (the rounded
\* corners of the true buffer are squared off; no axis-parallel line through
\* the polygon meets them).
ST_Buffer(r, d) == [xlo |-> r.xlo - d, ylo |-> r.ylo - d, xhi |-> r.xhi + d, yhi |-> r.yhi + d]


-----------------------------------------------------------------------------
(* Angles.  An angle in degrees is a fraction [n, d] with d > 0.  atan2 is *)
(* exact at every multiple of 45 degrees and interpolated linearly in      *)
(* dy / (|dx| + |dy|) in between (the true values are irrational); the     *)
(* interpolation is monotone, so every comparison of an angle with 0, 45,  *)
(* 90, ..., 360 comes out as for the true angle.                           *)

Frac(n, d) == [n |-> n, d |-> d]
FracLe(a, k) == a.n <= k * a.d
FracGe(a, k) == a.n >= k * a.d
FracLt(a, k) == a.n < k * a.d
FracEq(a, b) == a.n * b.d = b.n * a.d

\* atan2(dy, dx) in degrees, in (-180, 180].
Atan2Deg(dy, dx) ==
    LET s == Abs(dx) + Abs(dy)
    IN IF s = 0 THEN Frac(0, 1)
       ELSE IF dx >= 0 /\ dy >= 0 THEN Frac(90 * dy, s)
       ELSE IF dx < 0 /\ dy >= 0 THEN Frac(180 * s - 90 * dy, s)
       ELSE IF dx < 0 THEN Frac(90 * (-dy) - 180 * s, s)
       ELSE Frac(-(90 * (-dy)), s)

\* The % of the SQL dialect on floating point numbers: fmod, the result has
\* the sign of the dividend.
Fmod(a, m) ==
    IF a.n >= 0 THEN Frac(a.n % (m * a.d), a.d) ELSE Frac(-((-a.n) % (m * a.d)), a.d)

\* degrees(2*pi() + pi()/2 - atan2(dy, dx) % (2*pi())) % 360: % binds
\* tighter than + and -, so the inner % applies to the atan2 alone.
AzimuthNoQuarterTurn(dy, dx) ==
    LET t == Fmod(Atan2Deg(dy, dx), 360)
    IN Fmod(Frac(360 * t.d - t.n, t.d), 360)
AzimuthExpr(dy, dx) ==
    LET t == Fmod(Atan2Deg(dy, dx), 360)
    IN Fmod(Frac((360 + 90) * t.d - t.n, t.d), 360)

\* The azimuth process_axis stores for a LINESTRING.
Azimuth(l) ==
    LET s == l[1]
        e == l[Len(l)]
    IN AzimuthExpr(ST_Y(e) - ST_Y(s), ST_X(e) - ST_X(s))

\* The CASE of relate_deck_axis.
OrientOpen45(az) ==
    IF \/ FracGe(az, 0) /\ FracLt(az, 45)
       \/ FracGe(az, 315) /\ FracLe(az, 360)
       \/ FracGe(az, 135) /\ FracLe(az, 225)
    THEN "NS" ELSE "EW"
Orient(az) ==
    IF \/ FracGe(az, 0) /\ FracLe(az, 45)
       \/ FracGe(az, 315) /\ FracLe(az, 360)
       \/ FracGe(az, 135) /\ FracLe(az, 225)
    THEN "NS" ELSE "EW"

\* The CASE of process_axis: reverse the line when its start point is
\* strictly north of its centroid, or at the same northing strictly east.
KeepDirection(l) == l
Canonical(l) ==
    LET s == l[1]
        c == CentroidNum(l)
        d == CentroidDen(l)
    IN IF ST_Y(s) * d > c[2] THEN ST_Reverse(l)
       ELSE IF ST_Y(s) * d = c[2] /\ ST_X(s) * d > c[1] THEN ST_Reverse(l)
       ELSE l

-----------------------------------------------------------------------------
(* Rows.                                                                   *)

DeckRow(u, g) ==
    [uid |-> u, geom |-> g, span_count |-> NULL, buffer |-> NULL, deck_edge |-> NULL,
     deck_length |-> NULL, buffer_edge |-> NULL, orientation |-> NULL, edge_check |-> NULL]
AxisRow(u, g) == [uid |-> u, geom |-> g, length |-> NULL, azimuth |-> NULL, rdeck |-> NULL]
SupportRow(u, g) == [uid |-> u, geom |-> g, rdeck |-> NULL]
PointRow(u, g) ==
    [uid |-> u, geom |-> g, rdeck |-> NULL, rsector |-> NULL, ndist_axis |-> NULL, proj_axis |-> NULL]

UidsOf(t) == {r.uid : r \in t}

\* The functions that give every u of DOMAIN allowed one value of allowed[u].
RECURSIVE Choices(_)
Choices(allowed) ==
    IF DOMAIN allowed = {} THEN {<<>>}
    ELSE LET u == CHOOSE x \in DOMAIN allowed : TRUE
             rest == Choices([x \in DOMAIN allowed \ {u} |-> allowed[x]])
         IN {f @@ (u :> v) : f \in rest, v \in allowed[u]}
\* The join rows that may be applied to the target row with matches m (0:
\* the row has no join row and is left as it is).
Applied(m) == IF m = {} THEN {0} ELSE m
RowOf(t, u) == CHOOSE r \in t : r.uid = u

\* The buffer distances handed to process_deck (0: no buffer; 4: one grid
\* step).
BufferDistances == {0, 4}

-----------------------------------------------------------------------------
(* The schema.  A stage is a list of SQL statements that are executed one  *)
(* after the other, each committed on its own; the first statement that    *)
(* fails ends the stage with an error and leaves what the statements       *)
(* before it did.  A statement fails when it reads a table or column that  *)
(* does not exist, or adds a column that exists.                           *)

Layers == {"deck", "axis", "support", "ascending", "descending"}
Proc(t) == CASE t = "deck" -> "proc_deck" [] t = "axis" -> "proc_axis"
             [] t = "support" -> "proc_support" [] t = "ascending" -> "proc_ascending"
             [] OTHER -> "proc_descending"
Of(t, cs) == {<<t, c>> : c \in cs}

\* SELECT / UPDATE / DELETE that names the columns rs.
Reads(rs) == [kind |-> "read", table |-> "", reads |-> rs, cols |-> {}]
\* ALTER TABLE t ADD COLUMN c.
Adds(t, c) == [kind |-> "add", table |-> t, reads |-> {<<t, "uid">>}, cols |-> {<<t, c>>}]
\* CREATE OR REPLACE TABLE t with the columns cs, from a query that reads rs.
Makes(t, cs, rs) == [kind |-> "make", table |-> t, reads |-> rs, cols |-> Of(t, cs)]

StmtFailsOnAddOnly(st, schema) ==
    st.kind = "add" /\ st.cols \cap schema # {}
StmtFails(st, schema) ==
    \/ ~(st.reads \subseteq schema)
    \/ st.kind = "add" /\ st.cols \cap schema # {}
StmtCols(st, schema) ==
    IF st.kind = "make" THEN {c \in schema : c[1] # st.table} \cup st.cols
    ELSE schema \cup st.cols
RECURSIVE RunStmts(_, _, _)
RunStmts(stmts, i, schema) ==
    IF i > Len(stmts) THEN [cols |-> schema, failed |-> FALSE]
    ELSE IF StmtFails(stmts[i], schema) THEN [cols |-> schema, failed |-> TRUE]
    ELSE RunStmts(stmts, i + 1, StmtCols(stmts[i], schema))

\* The statements of the stages, in the order of the source.
BuildStmts ==
    [i \in 1..5 |->
        LET t == <<"deck", "axis", "support", "ascending", "descending">>[i]
        IN Makes(Proc(t), {"uid", "geom"}, Of(t, {"uid", "geom"}))]
ProcessAxisStmts ==
    << Reads(Of("proc_axis", {"geom"})),
       Adds("proc_axis", "length"),
       Adds("proc_axis", "azimuth"),
       Reads(Of("proc_axis", {"geom", "length", "azimuth"})) >>
ProcessDeckStmts ==
    << Adds("proc_deck", "span_count"),
       Reads(Of("proc_deck", {"uid", "geom", "span_count"}) \cup Of("proc_support", {"uid", "geom"})),
       Adds("proc_support", "rdeck"),
       Reads(Of("proc_support", {"uid", "geom", "rdeck"}) \cup Of("proc_deck", {"uid", "geom"})),
       Reads(Of("proc_support", {"rdeck"})),
       Adds("proc_deck", "buffer"),
       Reads(Of("proc_deck", {"geom", "buffer"})) >>
RelateDeckAxisStmts ==
    << Adds("proc_deck", "deck_edge"),
       Adds("proc_deck", "deck_length"),
       Adds("proc_deck", "buffer_edge"),
       Adds("proc_deck", "orientation"),
       Reads(Of("proc_deck", {"uid", "geom", "buffer", "deck_edge", "deck_length",
                              "buffer_edge", "orientation"})
             \cup Of("proc_axis", {"geom", "azimuth"})),
       Reads(Of("proc_deck", {"orientation"})),
       Adds("proc_axis", "rdeck"),
       Reads(Of("proc_axis", {"uid", "geom", "rdeck"}) \cup Of("proc_deck", {"uid", "geom"})) >>
\* create_sectors: the SELECT and the creation of the table before the loop,
\* center and ndist after it.
CreateSectorsHead ==
    << Reads(Of("proc_deck", {"uid", "geom", "buffer", "buffer_edge", "deck_edge"})),
       Makes("sectors", {"uid", "geom", "sector_tag", "rdeck"}, {}) >>
CreateSectorsTail ==
    << Adds("sectors", "center"),
       Reads(Of("sectors", {"sector_tag", "center", "rdeck"})
             \cup Of("proc_deck", {"uid", "buffer_edge", "deck_edge"})),
       Adds("sectors", "ndist"),
       Reads(Of("sectors", {"uid", "rdeck", "center", "ndist"})
             \cup Of("proc_axis", {"geom", "length", "rdeck"})) >>
PointStmts(t, new, other) ==
    << Adds(t, new[1]),
       Adds(t, new[2]),
       Reads(Of(t, {"uid", "geom"} \cup {new[1], new[2]}) \cup other) >>
RelateDeckPspointsStmts ==
    PointStmts("proc_ascending", <<"rdeck", "rsector">>, Of("sectors", {"uid", "geom", "rdeck"}))
    \o << Reads(Of("proc_ascending", {"rdeck"})) >>
    \o PointStmts("proc_descending", <<"rdeck", "rsector">>, Of("sectors", {"uid", "geom", "rdeck"}))
    \o << Reads(Of("proc_descending", {"rdeck"})) >>
RelateAxisPspointsStmts ==
    PointStmts("proc_ascending", <<"ndist_axis", "proj_axis">>,
               Of("proc_ascending", {"rdeck"}) \cup Of("proc_axis", {"geom", "length", "rdeck"}))
    \o PointStmts("proc_descending", <<"ndist_axis", "proj_axis">>,
                  Of("proc_descending", {"rdeck"}) \cup Of("proc_axis", {"geom", "length", "rdeck"}))
DeckEdgeControlStmts ==
    << Adds("proc_deck", "edge_check"),
       Reads(Of("proc_deck", {"uid", "deck_edge", "edge_check"})
             \cup Of("proc_ascending", {"rdeck", "proj_axis"})
             \cup Of("proc_descending", {"rdeck", "proj_axis"})) >>
GetNsStmts ==
    << Reads(Of("proc_deck", {"uid", "orientation", "edge_check"})
             \cup Of("proc_ascending", {"rdeck"}) \cup Of("proc_descending", {"rdeck"})) >>
GetEwStmts ==
    << Reads(Of("proc_deck", {"uid", "orientation"})
             \cup Of("proc_ascending", {"rdeck", "rsector"})
             \cup Of("proc_descending", {"rdeck", "rsector"})
             \cup Of("sectors", {"uid", "sector_tag"})) >>

StageStmts(stage) ==
    CASE stage = "build_process_tables" -> BuildStmts
      [] stage = "process_axis" -> ProcessAxisStmts
      [] stage = "process_deck" -> ProcessDeckStmts
      [] stage = "relate_deck_axis" -> RelateDeckAxisStmts
      [] stage = "create_sectors" -> CreateSectorsHead \o CreateSectorsTail
      [] stage = "relate_deck_pspoints" -> RelateDeckPspointsStmts
      [] stage = "relate_axis_pspoints" -> RelateAxisPspointsStmts
      [] stage = "deck_edge_control" -> DeckEdgeControlStmts
      [] stage = "get_ns_bridge_uid" -> GetNsStmts
      [] OTHER -> GetEwStmts
RunStage(stage) == RunStmts(StageStmts(stage), 1, cols)
\* The guard of a stage that runs to its end: it was not called before, and
\* none of its statements fails.
StageOk(stage) == stage \notin ran \cup err /\ ~RunStage(stage).failed

-----------------------------------------------------------------------------
(* build_process_tables: CREATE OR REPLACE TABLE proc_<t> AS SELECT uid,   *)
(* ST_Transform(geom, ...) for the five tables.  load_file has numbered    *)
(* the rows of each raw table 1, 2, ...  The layers are taken to be in the *)
(* computational projection already, where ST_Transform changes nothing.   *)

BuildProcessTables ==
    /\ StageOk("build_process_tables")
    /\ cols' = RunStage("build_process_tables").cols
    /\ deck' = {DeckRow(i, raw.deck[i]) : i \in 1..Len(raw.deck)}
    /\ axis' = {AxisRow(i, raw.axis[i]) : i \in 1..Len(raw.axis)}
    /\ support' = {SupportRow(i, raw.support[i]) : i \in 1..Len(raw.support)}
    /\ ascending' = {PointRow(i, raw.ascending[i]) : i \in 1..Len(raw.ascending)}
    /\ descending' = {PointRow(i, raw.descending[i]) : i \in 1..Len(raw.descending)}
    /\ ran' = ran \cup {"build_process_tables"}
    /\ UNCHANGED <<raw, sectors, err, gis, ns_uid, ew_uid, raised, edge_distance>>

-----------------------------------------------------------------------------
(* process_axis: canonical direction, then length and azimuth.             *)

ProcessAxisRow(a) ==
    LET g == Canonical(a.geom)
    IN [a EXCEPT !.geom = g,
                 !.length = Some(ST_Distance(g[1], g[Len(g)])),
                 !.azimuth = Some(Azimuth(g))]

ProcessAxis ==
    /\ StageOk("process_axis")
    /\ cols' = RunStage("process_axis").cols
    /\ axis' = {ProcessAxisRow(a) : a \in axis}
    /\ ran' = ran \cup {"process_axis"}
    /\ UNCHANGED <<raw, deck, support, ascending, descending, sectors, err, gis, ns_uid, ew_uid, raised, edge_distance>>

-----------------------------------------------------------------------------
(* process_deck(buffer_distance): span_count, support.rdeck, buffer.       *)

\* span_count = COALESCE(overlap + 1, 1), overlap = COUNT(second.uid) of the
\* LEFT JOIN of the deck with the supports ON ST_Overlaps.
SpanCountIntersecting(d, supp) ==
    Cardinality({s \in supp : ST_IntersectsPoly(d.geom, s.geom)}) + 1
SpanCount(d, supp) ==
    Cardinality({s \in supp : ST_Overlaps(d.geom, s.geom)}) + 1

\* The rows of the join of a support with the decks ON ST_Intersects.
SupportMatches(s, decks) == {d.uid : d \in {x \in decks : ST_IntersectsPoly(s.geom, x.geom)}}

\* UPDATE ... SET rdeck FROM the join: a support with one join row gets it;
\* with several join rows the statement leaves open which one is applied;
\* with none the support keeps NULL.  pick names the applied row (0: none).
SupportPicks(supp, decks) ==
    Choices([u \in UidsOf(supp) |-> Applied(SupportMatches(RowOf(supp, u), decks))])
RelateSupport(supp, pick) ==
    {[s EXCEPT !.rdeck = IF pick[s.uid] = 0 THEN NULL ELSE Some(pick[s.uid])] : s \in supp}

\* DELETE FROM proc_support WHERE rdeck IS NULL.
KeepUnrelated(supp) == supp
DeleteUnrelated(supp) == {s \in supp : s.rdeck # NULL}

ProcessDeck(bd) ==
    /\ StageOk("process_deck")
    /\ cols' = RunStage("process_deck").cols
    /\ \E pick \in SupportPicks(support, deck) :
          support' = DeleteUnrelated(RelateSupport(support, pick))
    /\ deck' = {[d EXCEPT !.span_count = Some(SpanCount(d, support)),
                          !.buffer = Some(ST_Buffer(d.geom, bd))] : d \in deck}
    /\ ran' = ran \cup {"process_deck"}
    /\ UNCHANGED <<raw, axis, ascending, descending, sectors, err, gis, ns_uid, ew_uid, raised, edge_distance>>

-----------------------------------------------------------------------------
(* relate_deck_axis: deck_edge, deck_length, buffer_edge, orientation of   *)
(* the decks, pruning of the decks without axis, rdeck of the axes.        *)

DeckMatches(d, axes) == {a.uid : a \in {x \in axes : ST_Intersects(d.geom, x.geom)}}
AxisMatches(a, decks) == {d.uid : d \in {x \in decks : ST_Intersects(x.geom, a.geom)}}

\* As for the supports: of several join rows of one target row, any one may
\* be the row that is applied.
DeckPicks(decks, axes) ==
    Choices([u \in UidsOf(decks) |-> Applied(DeckMatches(RowOf(decks, u), axes))])
AxisPicks(axes, decks) ==
    Choices([u \in UidsOf(axes) |-> Applied(AxisMatches(RowOf(axes, u), decks))])
\* The SET list of the deck UPDATE, from the join row of deck d and axis a.
RelateDeckRow(d, a) ==
    [d EXCEPT !.deck_edge = Some(ST_Intersection(d.geom, a.geom)),
              !.deck_length = Some(ST_Length(ST_Intersection(d.geom, a.geom))),
              !.buffer_edge = Some(ST_Intersection(Val(d.buffer), a.geom)),
              !.orientation = Some(Orient(Val(a.azimuth)))]
RelateDecks(decks, axes, pick) ==
    {IF pick[d.uid] = 0 THEN d ELSE RelateDeckRow(d, RowOf(axes, pick[d.uid])) : d \in decks}

\* DELETE FROM proc_deck WHERE orientation IS NULL.
DeleteUnorientedDecks(decks) == {d \in decks : d.orientation # NULL}

RelateAxes(axes, pick) ==
    {[a EXCEPT !.rdeck = IF pick[a.uid] = 0 THEN NULL ELSE Some(pick[a.uid])] : a \in axes}

RelateDeckAxis ==
    /\ StageOk("relate_deck_axis")
    /\ cols' = RunStage("relate_deck_axis").cols
    /\ \E dpick \in DeckPicks(deck, axis) :
          /\ deck' = DeleteUnorientedDecks(RelateDecks(deck, axis, dpick))
          /\ \E apick \in AxisPicks(axis, deck') : axis' = RelateAxes(axis, apick)
    /\ ran' = ran \cup {"relate_deck_axis"}
    /\ UNCHANGED <<raw, support, ascending, descending, sectors, err, gis, ns_uid, ew_uid, raised, edge_distance>>

-----------------------------------------------------------------------------
(* create_sectors.                                                         *)

\* The rows of a table in the order of their uid (the order the SELECT of
\* create_sectors is taken to return them in).
RECURSIVE SortedUids(_)
SortedUids(us) ==
    IF us = {} THEN <<>>
    ELSE LET m == CHOOSE u \in us : \A v \in us : u <= v
         IN <<m>> \o SortedUids(us \ {m})

\* The columns start and finish of the SELECT: the anchors.
StartAnchor(d) == MidPoint(ST_StartPoint(d.deck_edge), ST_StartPoint(d.buffer_edge))
FinishAnchor(d) == MidPoint(ST_EndPoint(d.deck_edge), ST_EndPoint(d.buffer_edge))

\* gis_ops (extract_intersecting_edges, extend_line, sort_by_centroid,
\* move_lines_to_points, multisplit) is not part of the sources at hand; the
\* split is modelled from section 4.5 of the specification: the two cutting
\* lines run across the axis through the two anchors, a cutting line that
\* does not pass through the interior of the buffer cuts nothing, and the
\* pieces come from the finish side to the start side.
\* The coordinate along the axis is x for a line along x, else y.
AlongX(l) == l[1][2] = l[Len(l)][2]
CutCoords(d) ==
    LET b == Val(d.buffer)
        k == IF AlongX(Val(d.buffer_edge)) THEN 1 ELSE 2
        lo == IF k = 1 THEN b.xlo ELSE b.ylo
        hi == IF k = 1 THEN b.xhi ELSE b.yhi
    IN {c \in {Val(StartAnchor(d))[k], Val(FinishAnchor(d))[k]} : lo < c /\ c < hi}
RECURSIVE Slices(_, _, _, _)
Slices(b, alongx, hi, cuts) ==
    LET lo == IF alongx THEN b.xlo ELSE b.ylo
        top == IF cuts = {} THEN lo ELSE CHOOSE c \in cuts : \A e \in cuts : c >= e
        piece == IF alongx THEN [b EXCEPT !.xlo = top, !.xhi = hi]
                 ELSE [b EXCEPT !.ylo = top, !.yhi = hi]
    IN IF cuts = {} THEN <<piece>>
       ELSE <<piece>> \o Slices(b, alongx, top, cuts \ {top})
MultiSplit(d) ==
    LET b == Val(d.buffer)
        alongx == AlongX(Val(d.buffer_edge))
    IN Slices(b, alongx, IF alongx THEN b.xhi ELSE b.yhi, CutCoords(d))

\* The list multisplit returns: the pieces in the order gis.order puts them
\* in (<<1, 2, 3>>: from the finish side to the start side).
SplitResult(d) ==
    LET ps == MultiSplit(d)
    IN IF Len(ps) = 3 THEN [i \in 1..3 |-> ps[gis.order[i]]] ELSE ps

SectorTags == <<"N", "C", "S">>
SectorRow(u, g, tag, rd) ==
    [uid |-> u, geom |-> g, sector_tag |-> tag, rdeck |-> rd, center |-> NULL, ndist |-> NULL]

\* The loop over the fetched decks: "for t in range(3)" inserts res[t] with
\* sector_tags[t].  wkbloads of a NULL anchor raises before anything of the
\* deck is inserted; res[t] raises when the split gave t pieces only, after
\* the rows for res[0..t-1] were inserted.  An exception ends the loop.
\* st = [rows, failed]; the sequence sector_id gives the uids 1, 2, ...
InsertCount(d) ==
    IF StartAnchor(d) = NULL \/ FinishAnchor(d) = NULL THEN 0
    ELSE Min2(3, Len(MultiSplit(d)))
DeckRaises(d) ==
    StartAnchor(d) = NULL \/ FinishAnchor(d) = NULL \/ Len(MultiSplit(d)) < 3
InsertDeck(rows, d) ==
    rows \cup {SectorRow(Cardinality(rows) + t, SplitResult(d)[t], SectorTags[t], d.uid) :
                  t \in 1..InsertCount(d)}
RECURSIVE SectorLoop(_, _, _, _)
SectorLoop(decks, order, i, rows) ==
    IF i > Len(order) THEN [rows |-> rows, failed |-> FALSE]
    ELSE LET d == RowOf(decks, order[i])
         IN IF DeckRaises(d) THEN [rows |-> InsertDeck(rows, d), failed |-> TRUE]
            ELSE SectorLoop(decks, order, i + 1, InsertDeck(rows, d))

\* UPDATE sectors SET center = CASE sector_tag ... FROM the decks.
SectorCenter(tag, d) ==
    IF tag = "N" THEN MidPoint(ST_EndPoint(d.buffer_edge), FinishAnchor(d))
    ELSE IF tag = "C" THEN MidPoint(ST_StartPoint(d.deck_edge), ST_EndPoint(d.deck_edge))
    ELSE MidPoint(ST_StartPoint(d.buffer_edge), StartAnchor(d))
WithCenters(rows, decks) ==
    {IF s.rdeck \in UidsOf(decks)
        THEN [s EXCEPT !.center = SectorCenter(s.sector_tag, RowOf(decks, s.rdeck))]
        ELSE s : s \in rows}

\* UPDATE sectors SET ndist = ST_Distance(ST_StartPoint(first.geom),
\* second.center) / first.length FROM the axes that have the sector's rdeck.
\* The quotient is kept as a fraction; a division by 0 gives NULL.
SectorAxes(s, axes) == {a.uid : a \in {x \in axes : x.rdeck = Some(s.rdeck)}}
NdistPicks(rows, axes) ==
    Choices([u \in UidsOf(rows) |-> Applied(SectorAxes(RowOf(rows, u), axes))])
Ndist(center, a) ==
    IF center = NULL \/ Val(a.length) = 0 THEN NULL
    ELSE Some(Frac(ST_Distance(a.geom[1], Val(center)), Val(a.length)))
WithNdist(rows, axes, pick) ==
    {IF pick[s.uid] = 0 THEN s
     ELSE [s EXCEPT !.ndist = Ndist(s.center, RowOf(axes, pick[s.uid]))] : s \in rows}

\* The stage ends with an exception of the loop (the table holds the rows
\* inserted so far), with an error of the ndist UPDATE (the centers are
\* set), or normally.
CreateSectors ==
    /\ "create_sectors" \notin ran \cup err
    /\ ~RunStmts(CreateSectorsHead, 1, cols).failed
    /\ LET head == RunStmts(CreateSectorsHead, 1, cols).cols
           tail == RunStmts(CreateSectorsTail, 1, head)
           loop == SectorLoop(deck, SortedUids(UidsOf(deck)), 1, {})
       IN IF loop.failed
          THEN /\ sectors' = loop.rows
               /\ cols' = head
               /\ err' = err \cup {"create_sectors"}
          ELSE IF tail.failed
          THEN /\ sectors' = WithCenters(loop.rows, deck)
               /\ cols' = tail.cols
               /\ err' = err \cup {"create_sectors"}
          ELSE /\ \E pick \in NdistPicks(loop.rows, axis) :
                     sectors' = WithNdist(WithCenters(loop.rows, deck), axis, pick)
               /\ cols' = tail.cols
               /\ err' = err
    /\ ran' = ran \cup {"create_sectors"}
    /\ UNCHANGED <<raw, deck, axis, support, ascending, descending, gis, ns_uid, ew_uid, raised, edge_distance>>

-----------------------------------------------------------------------------
(* relate_deck_pspoints: rdeck and rsector of the ascending and of the     *)
(* descending points, pruning of the points within no sector.              *)

PointMatches(p, secs) == {s.uid : s \in {x \in secs : ST_Within(p.geom[1], x.geom)}}
PointPicks(points, secs) ==
    Choices([u \in UidsOf(points) |-> Applied(PointMatches(RowOf(points, u), secs))])
\* SET rdeck = second.rdeck, rsector = second.rsector, both of one join row.
RelatePointsFirstDeck(points, secs, pick) ==
    {IF pick[p.uid] = 0 THEN p
     ELSE [p EXCEPT !.rdeck = Some(RowOf(secs, CHOOSE u \in PointMatches(p, secs) :
                                                \A v \in PointMatches(p, secs) : u <= v).rdeck),
                    !.rsector = Some(pick[p.uid])] : p \in points}
RelatePoints(points, secs, pick) ==
    {IF pick[p.uid] = 0 THEN p
     ELSE [p EXCEPT !.rdeck = Some(RowOf(secs, pick[p.uid]).rdeck),
                    !.rsector = Some(pick[p.uid])] : p \in points}
\* DELETE FROM proc_<points> WHERE rdeck IS NULL.
DeleteUnrelatedPoints(points) == {p \in points : p.rdeck # NULL}

RelateDeckPspoints ==
    /\ StageOk("relate_deck_pspoints")
    /\ cols' = RunStage("relate_deck_pspoints").cols
    /\ \E pick \in PointPicks(ascending, sectors) :
          ascending' = DeleteUnrelatedPoints(RelatePoints(ascending, sectors, pick))
    /\ \E pick \in PointPicks(descending, sectors) :
          descending' = DeleteUnrelatedPoints(RelatePoints(descending, sectors, pick))
    /\ ran' = ran \cup {"relate_deck_pspoints"}
    /\ UNCHANGED <<raw, deck, axis, support, sectors, err, gis, ns_uid, ew_uid, raised, edge_distance>>

-----------------------------------------------------------------------------
(* relate_axis_pspoints: ndist_axis and proj_axis of the points, from the  *)
(* axes that have the point's rdeck.                                       *)

\* The point of the segment a-b that is nearest to p: exact for a segment
\* that is parallel to an axis of the grid.
NearestOnSegment(p, a, b) ==
    <<Clamp(p[1], Min2(a[1], b[1]), Max2(a[1], b[1])), Clamp(p[2], Min2(a[2], b[2]), Max2(a[2], b[2]))>>
\* ST_EndPoint(ST_ShortestLine(point, line)): the point of the line that is
\* nearest to the point.
ST_ShortestLineEnd(p, l) ==
    LET c == {NearestOnSegment(p, l[i], l[i + 1]) : i \in 1..(Len(l) - 1)}
    IN CHOOSE q \in c : \A r \in c : Dist2(p, q) <= Dist2(p, r)

\* The rows of the join of a point with the axes ON first.rdeck =
\* second.rdeck (NULL joins nothing).
PointAxes(p, axes) == {a.uid : a \in {x \in axes : x.rdeck # NULL /\ x.rdeck = p.rdeck}}
AxisPointPicks(points, axes) ==
    Choices([u \in UidsOf(points) |-> Applied(PointAxes(RowOf(points, u), axes))])
ProjectPoint(p, a) ==
    LET q == ST_ShortestLineEnd(p.geom[1], a.geom)
    IN [p EXCEPT !.proj_axis = Some(<<q>>),
                 !.ndist_axis = IF Val(a.length) = 0 THEN NULL
                                ELSE Some(Frac(ST_Distance(a.geom[1], q), Val(a.length)))]
ProjectPoints(points, axes, pick) ==
    {IF pick[p.uid] = 0 THEN p ELSE ProjectPoint(p, RowOf(axes, pick[p.uid])) : p \in points}

RelateAxisPspoints ==
    /\ StageOk("relate_axis_pspoints")
    /\ cols' = RunStage("relate_axis_pspoints").cols
    /\ \E pick \in AxisPointPicks(ascending, axis) :
          ascending' = ProjectPoints(ascending, axis, pick)
    /\ \E pick \in AxisPointPicks(descending, axis) :
          descending' = ProjectPoints(descending, axis, pick)
    /\ ran' = ran \cup {"relate_axis_pspoints"}
    /\ UNCHANGED <<raw, deck, axis, support, sectors, err, gis, ns_uid, ew_uid, raised, edge_distance>>

-----------------------------------------------------------------------------
(* deck_edge_control(buffer_distance).                                     *)

\* ST_DWithin(e, proj_axis, buffer_distance / 2): distance <= the radius;
\* NULL (not true) when a side is NULL.  e is a nullable vertex, pr a
\* nullable POINT.
DWithinStrict(e, pr, bd) ==
    e # NULL /\ pr # NULL /\ 4 * Dist2(Val(e), Val(pr)[1]) < bd * bd
DWithin(e, pr, bd) ==
    e # NULL /\ pr # NULL /\ 4 * Dist2(Val(e), Val(pr)[1]) <= bd * bd
\* EXISTS (ascending ...) AND EXISTS (descending ...).
EdgeCheckAnyDeck(d, asc, desc, bd) ==
    /\ \E p \in asc : DWithin(ST_StartPoint(d.deck_edge), p.proj_axis, bd)
    /\ \E p \in desc : DWithin(ST_EndPoint(d.deck_edge), p.proj_axis, bd)
EdgeCheck(d, asc, desc, bd) ==
    /\ \E p \in asc : p.rdeck = Some(d.uid) /\ DWithin(ST_StartPoint(d.deck_edge), p.proj_axis, bd)
    /\ \E p \in desc : p.rdeck = Some(d.uid) /\ DWithin(ST_EndPoint(d.deck_edge), p.proj_axis, bd)

DeckEdgeControl(bd) ==
    /\ StageOk("deck_edge_control")
    /\ cols' = RunStage("deck_edge_control").cols
    /\ deck' = {[d EXCEPT !.edge_check = Some(EdgeCheck(d, ascending, descending, bd))] : d \in deck}
    /\ ran' = ran \cup {"deck_edge_control"}
    /\ edge_distance' = Some(bd)
    /\ UNCHANGED <<raw, axis, support, ascending, descending, sectors, err, gis, ns_uid, ew_uid, raised>>

-----------------------------------------------------------------------------
(* get_ns_bridge_uid and get_ew_bridge_uid.                                *)

\* The lists a query without ORDER BY may return for the set of rows S.
Orders(S) == {o \in [1..Cardinality(S) -> S] : \A i, j \in 1..Cardinality(S) : o[i] = o[j] => i = j}
RdecksOf(points) == {Val(p.rdeck) : p \in {x \in points : x.rdeck # NULL}}

\* SELECT rdeck FROM ascending WHERE rdeck IN (SELECT rdeck FROM descending
\* GROUP BY rdeck) GROUP BY rdeck ORDER BY rdeck: the ORDER BY of a query
\* under IN orders nothing of the outer query.
BothOrbits == RdecksOf(ascending) \cap RdecksOf(descending)
NsNoEdgeCheck(d) == d.orientation = Some("NS") /\ d.uid \in BothOrbits
NsQualifies(d) == d.orientation = Some("NS") /\ d.edge_check = Some(TRUE) /\ d.uid \in BothOrbits

GetNsBridgeUid ==
    /\ StageOk("get_ns_bridge_uid")
    /\ \E o \in Orders({d.uid : d \in {x \in deck : NsQualifies(x)}}) : ns_uid' = Some(o)
    /\ ran' = ran \cup {"get_ns_bridge_uid"}
    /\ UNCHANGED <<raw, deck, axis, support, ascending, descending, sectors, err, cols, gis, ew_uid, raised, edge_distance>>

\* GROUP_CONCAT(DISTINCT s.sector_tag) of the join of the points of rdeck rd
\* with the sectors ON pa.rsector = s.uid, as the set of the characters of
\* the string (the tags and the separator); INSTR(.., c) > 0: c occurs.
TagsOf(points, rd) ==
    {RowOf(sectors, Val(p.rsector)).sector_tag :
        p \in {x \in points : x.rdeck = Some(rd) /\ x.rsector # NULL /\ Val(x.rsector) \in UidsOf(sectors)}}
GroupConcat(tags) == tags \cup (IF Cardinality(tags) > 1 THEN {","} ELSE {})
Instr(chars, c) == c \in chars
HasEitherEnd(points) ==
    {rd \in RdecksOf(points) :
        Instr(GroupConcat(TagsOf(points, rd)), "S") \/ Instr(GroupConcat(TagsOf(points, rd)), "N")}
HasBothEnds(points) ==
    {rd \in RdecksOf(points) :
        Instr(GroupConcat(TagsOf(points, rd)), "S") /\ Instr(GroupConcat(TagsOf(points, rd)), "N")}
EwQualifies(d) ==
    d.orientation = Some("EW") /\ d.uid \in HasBothEnds(ascending) /\ d.uid \in HasBothEnds(descending)

GetEwBridgeUid ==
    /\ StageOk("get_ew_bridge_uid")
    /\ \E o \in Orders({d.uid : d \in {x \in deck : EwQualifies(x)}}) : ew_uid' = Some(o)
    /\ ran' = ran \cup {"get_ew_bridge_uid"}
    /\ UNCHANGED <<raw, deck, axis, support, ascending, descending, sectors, err, cols, gis, ns_uid, raised, edge_distance>>

-----------------------------------------------------------------------------
(* A stage that is run while one of its statements fails: the statements   *)
(* before the failing one have added their columns (they change no row:    *)
(* what they join on is missing or NULL), the stage ends in an error.      *)

Stages ==
    {"build_process_tables", "process_axis", "process_deck", "relate_deck_axis",
     "create_sectors", "relate_deck_pspoints", "relate_axis_pspoints",
     "deck_edge_control", "get_ns_bridge_uid", "get_ew_bridge_uid"}
FailingStmts(stage) == IF stage = "create_sectors" THEN CreateSectorsHead ELSE StageStmts(stage)
StageFails(stage) ==
    /\ stage \notin ran \cup err
    /\ RunStmts(FailingStmts(stage), 1, cols).failed
    /\ cols' = RunStmts(FailingStmts(stage), 1, cols).cols
    /\ err' = err \cup {stage}
    /\ UNCHANGED <<raw, deck, axis, support, ascending, descending, sectors, ran, gis, ns_uid, ew_uid, raised, edge_distance>>

-----------------------------------------------------------------------------
(* load_file(source_file, table_name) of database.py.  A string is the     *)
(* sequence of its characters; an argument is [str, chars], str = FALSE    *)
(* for a value that is not a string.  In the runs of load_file `raw` maps  *)
(* the name of every loaded table to its rows and `cols` holds the columns *)
(* of the loaded tables; the sequence <table>_id is created with its table *)
(* in one execute.                                                         *)

Str(c) == [str |-> TRUE, chars |-> c]
NotAString == [str |-> FALSE, chars |-> <<>>]
Whitespace == {" ", "\t"}
IsSpace(c) == c # <<>> /\ \A i \in 1..Len(c) : c[i] \in Whitespace
EndsWith(c, suffix) ==
    Len(c) >= Len(suffix) /\ SubSeq(c, Len(c) - Len(suffix) + 1, Len(c)) = suffix

\* The files of the file system, with the columns and rows a reader gets.
CsvPath == <<"p", ".", "c", "s", "v">>
ShpPath == <<"d", ".", "s", "h", "p">>
TxtPath == <<"n", ".", "t", "x", "t">>
NoPath == <<"x", ".", "c", "s", "v">>
NoTxtPath == <<"y", ".", "t", "x", "t">>
Files ==
    (CsvPath :> [cols |-> {"x", "y"}, rows |-> <<<<<<2, 2>>>>>>])
    @@ (ShpPath :> [cols |-> {"geom"}, rows |-> <<<<<<0, 2>>, <<4, 2>>>>>>])
    @@ (TxtPath :> [cols |-> {"text"}, rows |-> <<>>])

\* The three checks of the loop "for check in [source_file, table_name]".
CheckArgNoSpace(v) ==
    IF ~v.str THEN Some("must be a string")
    ELSE IF v.chars = <<>> THEN Some("must not be empty")
    ELSE NULL
CheckArg(v) ==
    IF ~v.str THEN Some("must be a string")
    ELSE IF v.chars = <<>> THEN Some("must not be empty")
    ELSE IF IsSpace(v.chars) THEN Some("must not be whitespace-only")
    ELSE NULL
\* The exception load_file raises before its execute, NULL when it raises
\* none.
LoadRaises(source_file, table_name) ==
    IF CheckArg(source_file) # NULL
    THEN Some([type |-> "ValueError", of |-> "source_file", msg |-> Val(CheckArg(source_file))])
    ELSE IF CheckArg(table_name) # NULL
    THEN Some([type |-> "ValueError", of |-> "table_name", msg |-> Val(CheckArg(table_name))])
    ELSE IF source_file.chars \notin DOMAIN Files
    THEN Some([type |-> "FileNotFoundError", of |-> "source_file", msg |-> "does not exist"])
    ELSE IF ~EndsWith(source_file.chars, <<".", "c", "s", "v">>)
            /\ ~EndsWith(source_file.chars, <<".", "s", "h", "p">>)
    THEN Some([type |-> "ValueError", of |-> "source_file", msg |-> "unsupported file format"])
    ELSE NULL

\* CREATE OR REPLACE TABLE .. AS SELECT * FROM <reader>(file), CREATE OR
\* REPLACE SEQUENCE, ALTER TABLE .. ADD COLUMN uid.
LoadFile(source_file, table_name) ==
    /\ raised' = LoadRaises(source_file, table_name)
    /\ IF LoadRaises(source_file, table_name) = NULL
       THEN /\ raw' = (table_name.chars :> Files[source_file.chars].rows) @@ raw
            /\ cols' = {c \in cols : c[1] # table_name.chars}
                       \cup Of(table_name.chars, Files[source_file.chars].cols \cup {"uid"})
       ELSE UNCHANGED <<raw, cols>>
    /\ UNCHANGED <<deck, axis, support, ascending, descending, sectors, ran, err, gis, ns_uid, ew_uid, edge_distance>>

-----------------------------------------------------------------------------
(* Inputs.  The pipeline inputs lie on a strip: the polygons are the       *)
(* rectangles [a, b] x [0, 4] between grid lines, the axes run along the   *)
(* strip at half height or across it with a margin of one grid step on     *)
(* both sides, in either direction, the measurement points lie at half     *)
(* height in the middle between two grid lines.                            *)

StripX(g) == {4 * i : i \in 0..g}
StripRects(g) ==
    {r \in [xlo : StripX(g), ylo : {0}, xhi : StripX(g), yhi : {4}] : r.xlo < r.xhi}
StripAxes(g) ==
    {l \in [1..2 -> {<<a, 2>> : a \in StripX(g)}] : l[1] # l[2]}
    \cup {<<<<a, -4>>, <<a, 8>>>> : a \in StripX(g)}
    \cup {<<<<a, 8>>, <<a, -4>>>> : a \in StripX(g)}
StripPoints(g) == {<<<<4 * i + 2, 2>>>> : i \in 0..g}

SeqsOf(S, lens) == UNION {[1..n -> S] : n \in lens}

\* The free axis lines of SpecAxis: every two-vertex line of the square
\* grid, and the longer lines whose segments have whole lengths (where the
\* weights of ST_Centroid are exact), closed lines included.
AxisPoints == {<<4 * i, 4 * j>> : i, j \in 0..AxisGridMax}
IsSquare(n) == Sqrt(n) * Sqrt(n) = n
RECURSIVE WholeLines(_)
WholeLines(n) ==
    IF n = 2 THEN {l \in [1..2 -> AxisPoints] : l[1] # l[2] /\ IsSquare(Dist2(l[1], l[2]))}
    ELSE {l \in {Append(k, p) : k \in WholeLines(n - 1), p \in AxisPoints} :
             l[n - 1] # l[n] /\ IsSquare(Dist2(l[n - 1], l[n]))}
FreeLines ==
    {l \in [1..2 -> AxisPoints] : l[1] # l[2]} \cup UNION {WholeLines(n) : n \in 3..MaxVerts}
CoverRect == [xlo |-> 0, ylo |-> 0, xhi |-> 4 * AxisGridMax, yhi |-> 4 * AxisGridMax]

\* The columns of the loaded layers; the split routine returns its pieces
\* from the finish side to the start side.
RawCols == UNION {Of(t, {"uid", "geom"}) : t \in Layers}
AlongLine == [order |-> <<1, 2, 3>>]
NoTables ==
    /\ deck = {} /\ axis = {} /\ support = {} /\ ascending = {} /\ descending = {}
    /\ sectors = {} /\ ran = {} /\ err = {}
    /\ cols = RawCols /\ gis = AlongLine
    /\ ns_uid = NULL /\ ew_uid = NULL /\ raised = NULL /\ edge_distance = NULL

\* One deck, one axis, at most one support and at most one point per orbit.
\* The strip of the supports is one grid step longer, so that a support may
\* lie apart from the deck.
Init ==
    /\ raw \in [deck : SeqsOf(StripRects(GridMax), {1}),
                axis : SeqsOf(StripAxes(GridMax), {1}),
                support : SeqsOf(StripRects(GridMax + 1), {0, 1}),
                ascending : SeqsOf(StripPoints(GridMax), {0, 1}),
                descending : SeqsOf(StripPoints(GridMax), {0, 1})]
    /\ NoTables

\* Decks and axes only, up to two of each.
InitRel ==
    /\ raw \in [deck : SeqsOf(StripRects(GridMax), {1, 2}),
                axis : SeqsOf(StripAxes(GridMax), {1, 2}),
                support : {<<>>}, ascending : {<<>>}, descending : {<<>>}]
    /\ NoTables

\* Decks and supports only, up to two of each.
InitSpan ==
    /\ raw \in [deck : SeqsOf(StripRects(SpanGridMax), {1, 2}),
                axis : {<<>>},
                support : SeqsOf(StripRects(SpanGridMax), {0, 1, 2}),
                ascending : {<<>>}, descending : {<<>>}]
    /\ NoTables

\* One free axis line under one deck that covers the grid.
InitAxis ==
    /\ raw \in [deck : {<<CoverRect>>}, axis : SeqsOf(FreeLines, {1}),
                support : {<<>>}, ascending : {<<>>}, descending : {<<>>}]
    /\ NoTables

\* The whole pipeline up to the selectors: a west deck, an east deck or
\* both, one axis of the strip or two axes across it, and up to MaxPoints
\* points per orbit in the order of the strip.
WestDeck == [xlo |-> 0, ylo |-> 0, xhi |-> 4, yhi |-> 4]
EastDeck == [xlo |-> 4, ylo |-> 0, xhi |-> 8, yhi |-> 4]
SelDecks == {<<WestDeck>>, <<EastDeck>>, <<WestDeck, EastDeck>>}
SelX == {WestDeck.xlo, WestDeck.xhi, EastDeck.xhi}
Across(a) == <<<<a, -4>>, <<a, 8>>>>
SelAxes ==
    {<<l>> : l \in {k \in [1..2 -> {<<a, 2>> : a \in SelX}] : k[1] # k[2]}}
    \cup {<<Across(a)>> : a \in SelX}
    \cup {<<<<Across(a)[2], Across(a)[1]>>>> : a \in SelX}
    \cup {q \in {<<Across(a), Across(b)>> : a, b \in SelX} : q[1][1][1] < q[2][1][1]}
\* The points lie off the grid lines and off the midpoints between them,
\* where the cuts of the sectors may lie.
SelPoints == {<<<<a + 1, 2>>>> : a \in SelX}
AlongStrip(S, n) ==
    {q \in SeqsOf(S, 0..n) : \A i, j \in 1..Len(q) : i < j => q[i][1][1] < q[j][1][1]}
InitSel ==
    /\ raw \in [deck : SelDecks, axis : SelAxes, support : {<<>>},
                ascending : AlongStrip(SelPoints, MaxPoints),
                descending : AlongStrip(SelPoints, MaxPoints)]
    /\ NoTables

\* One deck and one axis, under a split routine that returns its pieces in
\* any order.
SplitOrders == {o \in [1..3 -> 1..3] : \A i, j \in 1..3 : o[i] = o[j] => i = j}
InitSplit ==
    /\ raw \in [deck : SeqsOf(StripRects(GridMax), {1}),
                axis : SeqsOf(StripAxes(GridMax), {1}),
                support : {<<>>}, ascending : {<<>>}, descending : {<<>>}]
    /\ deck = {} /\ axis = {} /\ support = {} /\ ascending = {} /\ descending = {}
    /\ sectors = {} /\ ran = {} /\ err = {}
    /\ cols = RawCols /\ gis \in [order : SplitOrders]
    /\ ns_uid = NULL /\ ew_uid = NULL /\ raised = NULL /\ edge_distance = NULL

\* The stages in any order, those that fail included, over the west deck,
\* an axis along or across it and one point, seen from both orbits.
InitOrder ==
    /\ raw \in {[deck |-> <<WestDeck>>, axis |-> <<l>>, support |-> <<>>,
                 ascending |-> <<g>>, descending |-> <<g>>] :
                    l \in {<<<<WestDeck.xlo, 2>>, <<WestDeck.xhi, 2>>>>, Across(WestDeck.xhi)},
                    g \in SelPoints}
    /\ NoTables

\* The calls of load_file on an empty database: arguments that are not
\* strings, empty, blank, paths of files that exist or not, and table names.
SourceArgs ==
    {NotAString, Str(<<>>), Str(<<" ">>), Str(CsvPath), Str(ShpPath), Str(TxtPath),
     Str(NoPath), Str(NoTxtPath)}
TableArgs ==
    {NotAString, Str(<<>>), Str(<<" ", "\t">>), Str(<<"d">>), Str(<<"a">>), Str(<<"p">>)}
InitLoad ==
    /\ raw = <<>> /\ cols = {}
    /\ deck = {} /\ axis = {} /\ support = {} /\ ascending = {} /\ descending = {}
    /\ sectors = {} /\ ran = {} /\ err = {} /\ gis = AlongLine
    /\ ns_uid = NULL /\ ew_uid = NULL /\ raised = NULL /\ edge_distance = NULL

Next ==
    \/ BuildProcessTables
    \/ ProcessAxis
    \/ \E bd \in BufferDistances : ProcessDeck(bd)
    \/ RelateDeckAxis
    \/ CreateSectors
    \/ RelateDeckPspoints

NextRel ==
    \/ BuildProcessTables
    \/ ProcessAxis
    \/ \E bd \in BufferDistances : ProcessDeck(bd)
    \/ RelateDeckAxis
    \/ CreateSectors

NextSpan ==
    \/ BuildProcessTables
    \/ \E bd \in BufferDistances : ProcessDeck(bd)

NextAxis ==
    \/ BuildProcessTables
    \/ ProcessAxis
    \/ \E bd \in BufferDistances : ProcessDeck(bd)
    \/ RelateDeckAxis

NextSel ==
    \/ BuildProcessTables
    \/ ProcessAxis
    \/ \E bd \in {b \in BufferDistances : b > 0} : ProcessDeck(bd)
    \/ RelateDeckAxis
    \/ CreateSectors
    \/ RelateDeckPspoints
    \/ RelateAxisPspoints
    \/ \E bd \in BufferDistances : DeckEdgeControl(bd)
    \/ GetNsBridgeUid
    \/ GetEwBridgeUid

NextOrder ==
    \/ NextSel
    \/ \E stage \in Stages : StageFails(stage)

NextLoad ==
    \E source_file \in SourceArgs, table_name \in TableArgs : LoadFile(source_file, table_name)

Spec == Init /\ [][Next]_vars
SpecSel == InitSel /\ [][NextSel]_vars
SpecSplit == InitSplit /\ [][NextRel]_vars
SpecLoad == InitLoad /\ [][NextLoad]_vars
SpecOrder == InitOrder /\ [][NextOrder]_vars
SpecRel == InitRel /\ [][NextRel]_vars
SpecSpan == InitSpan /\ [][NextSpan]_vars
SpecAxis == InitAxis /\ [][NextAxis]_vars

-----------------------------------------------------------------------------
(* Properties.                                                             *)

Ran(stage) == stage \in ran
SectorsOf(u) == {s \in sectors : s.rdeck = u}

\* C1: once create_sectors has ended, normally or with an error, every deck
\* of the deck table has exactly three sector rows, tagged N, C and S.
C1_ThreeSectorsPerDeck ==
    Ran("create_sectors") =>
        \A d \in deck :
            /\ Cardinality(SectorsOf(d.uid)) = 3
            /\ {s.sector_tag : s \in SectorsOf(d.uid)} = {"N", "C", "S"}

\* C2: a row without spatial match is deleted and a row with a match is
\* kept with its back-references set: the supports after process_deck, the
\* decks after relate_deck_axis, the points after relate_deck_pspoints.
SupportHasDeck(i) == \E j \in 1..Len(raw.deck) : ST_IntersectsPoly(raw.support[i], raw.deck[j])
DeckHasAxis(j) == \E k \in 1..Len(raw.axis) : ST_Intersects(raw.deck[j], raw.axis[k])
PointHasSector(g) == \E s \in sectors : ST_Within(g[1], s.geom)
C2_UnmatchedRowsDeleted ==
    /\ Ran("process_deck") =>
          /\ \A s \in support : s.rdeck # NULL
          /\ \A i \in 1..Len(raw.support) : SupportHasDeck(i) <=> i \in UidsOf(support)
    /\ Ran("relate_deck_axis") =>
          /\ \A d \in deck :
                d.orientation # NULL /\ d.deck_edge # NULL /\ d.buffer_edge # NULL
          /\ \A j \in 1..Len(raw.deck) : DeckHasAxis(j) <=> j \in UidsOf(deck)
    /\ Ran("relate_deck_pspoints") =>
          /\ \A p \in ascending \cup descending : p.rdeck # NULL /\ p.rsector # NULL
          /\ \A i \in 1..Len(raw.ascending) :
                PointHasSector(raw.ascending[i]) <=> i \in UidsOf(ascending)
          /\ \A i \in 1..Len(raw.descending) :
                PointHasSector(raw.descending[i]) <=> i \in UidsOf(descending)
\* A support without deck and a descending point without sector were
\* deleted, the deck and an ascending point were kept.
C2_Witness ==
    /\ Ran("relate_deck_pspoints")
    /\ Len(raw.support) = 1 /\ support = {}
    /\ Len(raw.descending) = 1 /\ descending = {}
    /\ deck # {} /\ ascending # {}

\* C3: after relate_deck_axis every axis row has length > 0 and every deck
\* row has deck_length > 0.
C3_PositiveLengths ==
    Ran("relate_deck_axis") =>
        /\ \A a \in axis : Val(a.length) > 0
        /\ \A d \in deck : Val(d.deck_length) > 0

\* C4: the canonicalization of process_axis is idempotent: applied to the
\* line it has produced, it leaves the vertex order as it is.
C4_CanonicalIdempotent ==
    Ran("process_axis") => \A a \in axis : Canonical(a.geom) = a.geom

\* C5: the canonicalization does not depend on the direction the line was
\* digitized in (the reversed input gives the same vertex order), and the
\* line then starts at its south-most end point, the west-most one of two
\* end points of the same northing.
SouthWestMost(s, e) == ST_Y(s) < ST_Y(e) \/ (ST_Y(s) = ST_Y(e) /\ ST_X(s) <= ST_X(e))
C5_DirectionIndependent ==
    Ran("process_axis") =>
        \A a \in axis :
            /\ a.geom = Canonical(ST_Reverse(raw.axis[a.uid]))
            /\ SouthWestMost(a.geom[1], a.geom[Len(a.geom)])

\* C6: the orientation of a deck is NS exactly when the azimuth of its axis
\* lies in [0, 45], [315, 360] or [135, 225], the four bounds 45, 135, 225
\* and 315 included, and EW for every other azimuth.
InNSBands(az) ==
    \/ 0 <= az.n /\ az.n <= 45 * az.d
    \/ 315 * az.d <= az.n /\ az.n <= 360 * az.d
    \/ 135 * az.d <= az.n /\ az.n <= 225 * az.d
C6_OrientationByAzimuth ==
    Ran("relate_deck_axis") =>
        \A d \in deck :
            \E a \in axis :
                /\ a.rdeck = Some(d.uid)
                /\ d.orientation = Some(IF InNSBands(Val(a.azimuth)) THEN "NS" ELSE "EW")
\* A deck is NS on an axis of azimuth 45 exactly.
C6_Witness ==
    /\ Ran("relate_deck_axis")
    /\ \E d \in deck : \E a \in axis :
          /\ a.rdeck = Some(d.uid)
          /\ Val(a.azimuth).n = 45 * Val(a.azimuth).d
          /\ d.orientation = Some("NS")

\* C7: for an axis whose start and end point differ, 0 <= azimuth < 360 and
\* the azimuth is the compass bearing from the start to the end point,
\* clockwise from north: north 0, east 90, south 180, west 270.
Bearing(s, e) ==
    LET dx == ST_X(e) - ST_X(s)
        dy == ST_Y(e) - ST_Y(s)
        t == Abs(dx) + Abs(dy)
    IN IF dx >= 0 /\ dy > 0 THEN Frac(90 * dx, t)
       ELSE IF dx > 0 /\ dy <= 0 THEN Frac(90 * t + 90 * (-dy), t)
       ELSE IF dx <= 0 /\ dy < 0 THEN Frac(180 * t + 90 * (-dx), t)
       ELSE Frac(270 * t + 90 * dy, t)
Cells(r) ==
    {<<i, j>> : i \in (r.xlo \div 4)..((r.xhi \div 4) - 1), j \in (r.ylo \div 4)..((r.yhi \div 4) - 1)}
StrictOverlap(a, b) ==
    /\ Cells(a) \cap Cells(b) # {}
    /\ Cells(a) \ Cells(b) # {}
    /\ Cells(b) \ Cells(a) # {}
C8_SpanCount ==
    Ran("process_deck") =>
        \A d \in deck :
            /\ d.span_count # NULL
            /\ Val(d.span_count) >= 1
            /\ Val(d.span_count) =
                  1 + Cardinality({i \in 1..Len(raw.support) : StrictOverlap(d.geom, raw.support[i])})
\* A deck of span_count 2 with two supports that meet it: one overlaps it,
\* the other only touches it or is contained.
C8_Witness ==
    /\ Ran("process_deck")
    /\ \E d \in deck :
          /\ d.span_count = Some(2)
          /\ Len(raw.support) = 2
          /\ \A i \in 1..2 : ST_IntersectsPoly(d.geom, raw.support[i])

\* C9: process_deck relates every support to one deck, the same in every
\* run: a support that meets no deck is deleted, a support that meets decks
\* gets the last of them in the order of the join (the deck table's order).
LastMatch(i) ==
    LET m == {j \in 1..Len(raw.deck) : ST_IntersectsPoly(raw.support[i], raw.deck[j])}
    IN CHOOSE j \in m : \A k \in m : k <= j
C9_DeterministicRdeck ==
    Ran("process_deck") =>
        \A i \in 1..Len(raw.support) :
            IF SupportHasDeck(i)
            THEN i \in UidsOf(support) /\ RowOf(support, i).rdeck = Some(LastMatch(i))
            ELSE i \notin UidsOf(support)

\* C10: after relate_deck_axis, every axis a with a.rdeck = d.uid meets the
\* deck d, d.orientation is the class of a.azimuth, and d.deck_edge,
\* d.deck_length and d.buffer_edge are the intersections of d and of its
\* buffer with a; an axis that meets no surviving deck keeps rdeck NULL, and
\* every sector ndist comes from an axis whose rdeck is the sector's deck.
C10_DeckAxisConsistent ==
    Ran("relate_deck_axis") =>
        /\ \A a \in axis :
              IF AxisMatches(a, deck) = {} THEN a.rdeck = NULL
              ELSE \E d \in deck :
                      /\ a.rdeck = Some(d.uid)
                      /\ ST_Intersects(d.geom, a.geom)
                      /\ d.orientation = Some(IF InNSBands(Val(a.azimuth)) THEN "NS" ELSE "EW")
                      /\ d.deck_edge = Some(ST_Intersection(d.geom, a.geom))
                      /\ d.deck_length = Some(ST_Length(ST_Intersection(d.geom, a.geom)))
                      /\ d.buffer_edge = Some(ST_Intersection(Val(d.buffer), a.geom))
        /\ \A s \in sectors :
              s.ndist # NULL =>
                  \E a \in axis : a.rdeck = Some(s.rdeck) /\ s.ndist = Ndist(s.center, a)


\* C11: after relate_deck_pspoints every point that is left has the uid of
\* a sector as rsector, lies within that sector and has the rdeck of that
\* sector, also when it lies within sectors of several decks; every point
\* within no sector was deleted.
FollowsSector(p) ==
    /\ p.rsector # NULL
    /\ \E s \in sectors :
          s.uid = Val(p.rsector) /\ ST_Within(p.geom[1], s.geom) /\ p.rdeck = Some(s.rdeck)
C11_PointFollowsSector ==
    Ran("relate_deck_pspoints") =>
        /\ \A p \in ascending \cup descending : FollowsSector(p)
        /\ \A i \in 1..Len(raw.ascending) :
              ~PointHasSector(raw.ascending[i]) => i \notin UidsOf(ascending)
        /\ \A i \in 1..Len(raw.descending) :
              ~PointHasSector(raw.descending[i]) => i \notin UidsOf(descending)
\* An ascending point within sectors of two decks was related to the deck
\* of the higher uid, and both descending points are left.
C11_Witness ==
    /\ Ran("relate_deck_pspoints")
    /\ \E p \in ascending :
          /\ \E s, t \in sectors :
                s.rdeck < t.rdeck /\ ST_Within(p.geom[1], s.geom) /\ ST_Within(p.geom[1], t.geom)
          /\ \A s \in sectors : ST_Within(p.geom[1], s.geom) => s.rdeck <= Val(p.rdeck)
    /\ Cardinality(descending) = MaxPoints


\* The projection of the point p lies at a distance <= buffer_distance / 2
\* from the nullable vertex e, for the buffer_distance of the call.
WithinHalf(e, p) ==
    /\ e # NULL /\ p.proj_axis # NULL
    /\ 4 * Dist2(Val(e), Val(p.proj_axis)[1]) <= Val(edge_distance) * Val(edge_distance)
OnHalf(e, p) ==
    /\ e # NULL /\ p.proj_axis # NULL
    /\ 4 * Dist2(Val(e), Val(p.proj_axis)[1]) = Val(edge_distance) * Val(edge_distance)
NearStart(d, p) == WithinHalf(ST_StartPoint(d.deck_edge), p)
NearEnd(d, p) == WithinHalf(ST_EndPoint(d.deck_edge), p)
OwnPoints(points, d) == {p \in points : p.rdeck = Some(d.uid)}

C13_BothOrbitsAtBothEnds ==
    Ran("deck_edge_control") =>
        \A d \in deck :
            d.edge_check = Some(TRUE) =>
                \A points \in {ascending, descending} :
                    /\ \E p \in OwnPoints(points, d) : NearStart(d, p)
                    /\ \E p \in OwnPoints(points, d) : NearEnd(d, p)


\* The uids of a returned list.
Returned(l) == {Val(l)[i] : i \in 1..Len(Val(l))}

\* C14: get_ns_bridge_uid returns exactly the decks with orientation NS,
\* edge_check TRUE, an ascending point with rdeck = uid and a descending
\* point with rdeck = uid.
C14_NsCandidates ==
    Ran("get_ns_bridge_uid") =>
        \A d \in deck :
            d.uid \in Returned(ns_uid) <=>
                /\ d.orientation = Some("NS")
                /\ d.edge_check = Some(TRUE)
                /\ OwnPoints(ascending, d) # {}
                /\ OwnPoints(descending, d) # {}
\* A deck was returned, and a deck with orientation NS and points of both
\* orbits was not, for its edge_check is FALSE.
C14_Witness ==
    /\ Ran("get_ns_bridge_uid")
    /\ \E d, e \in deck :
          /\ d.uid \in Returned(ns_uid)
          /\ e.uid \notin Returned(ns_uid)
          /\ e.orientation = Some("NS")
          /\ OwnPoints(ascending, e) # {} /\ OwnPoints(descending, e) # {}


\* The tags of the sectors that the points of the deck d were related to.
SectorTagsOf(points, d) ==
    {s.sector_tag : s \in {x \in sectors : \E p \in OwnPoints(points, d) : p.rsector = Some(x.uid)}}

\* C15: get_ew_bridge_uid returns exactly the decks with orientation EW
\* whose ascending points lie in sectors tagged N and S and whose
\* descending points lie in sectors tagged N and S; edge_check plays no
\* role.
C15_EwCandidates ==
    Ran("get_ew_bridge_uid") =>
        \A d \in deck :
            d.uid \in Returned(ew_uid) <=>
                /\ d.orientation = Some("EW")
                /\ {"N", "S"} \subseteq SectorTagsOf(ascending, d)
                /\ {"N", "S"} \subseteq SectorTagsOf(descending, d)
\* A deck whose edge_check is FALSE was returned.
C15_Witness ==
    /\ Ran("get_ew_bridge_uid")
    /\ \E d \in deck : d.uid \in Returned(ew_uid) /\ d.edge_check = Some(FALSE)


\* C16: the list of get_ns_bridge_uid and the list of get_ew_bridge_uid
\* are each in ascending order of uid, without a uid twice.
Ascending(l) == \A i, j \in 1..Len(l) : i < j => l[i] < l[j]
C16_OrderedLists ==
    /\ Ran("get_ns_bridge_uid") => Ascending(Val(ns_uid))
    /\ Ran("get_ew_bridge_uid") => Ascending(Val(ew_uid))


\* C17: the sector tagged N is the piece at the finish side (it contains
\* the end point of buffer_edge and the N center), the sector tagged S the
\* piece at the start side (it contains the start point of buffer_edge and
\* the S center), the sector tagged C the piece between the cuts (it
\* contains the C center), whatever order the split returns its pieces in.
SideOf(s, d) ==
    IF s.sector_tag = "N" THEN ST_EndPoint(d.buffer_edge)
    ELSE IF s.sector_tag = "S" THEN ST_StartPoint(d.buffer_edge)
    ELSE SectorCenter("C", d)
C17_TagsBySide ==
    (Ran("create_sectors") /\ err = {}) =>
        \A d \in deck :
            \A s \in SectorsOf(d.uid) :
                /\ PointInRect(Val(SideOf(s, d)), s.geom)
                /\ PointInRect(Val(s.center), s.geom)

\* C18: when the split of the buffer of a deck does not give three pieces,
\* create_sectors ends in an error and the deck has no sector rows.
C18_NoPartialSectors ==
    Ran("create_sectors") =>
        \A d \in deck :
            (StartAnchor(d) # NULL /\ FinishAnchor(d) # NULL /\ Len(MultiSplit(d)) # 3) =>
                "create_sectors" \in err /\ SectorsOf(d.uid) = {}


\* C19: load_file raises ValueError for a source_file or table_name that
\* is not a string, is empty or is blank, else FileNotFoundError for a path
\* that does not exist, else ValueError for a file that is neither .csv
\* nor .shp, and in each of these cases no table is created, replaced or
\* altered.
BadArg(v) == ~v.str \/ Len(v.chars) = 0 \/ \A i \in 1..Len(v.chars) : v.chars[i] \in Whitespace
Extension(c) == IF Len(c) < 4 THEN <<>> ELSE <<c[Len(c) - 3], c[Len(c) - 2], c[Len(c) - 1], c[Len(c)]>>
ConfigurationError(source_file, table_name) ==
    IF BadArg(source_file) \/ BadArg(table_name) THEN "ValueError"
    ELSE IF source_file.chars \notin DOMAIN Files THEN "FileNotFoundError"
    ELSE IF Extension(source_file.chars) \notin {<<".", "c", "s", "v">>, <<".", "s", "h", "p">>}
    THEN "ValueError"
    ELSE "none"
C19_FailsFast ==
    [][\A source_file \in SourceArgs, table_name \in TableArgs :
          (LoadFile(source_file, table_name)
           /\ ConfigurationError(source_file, table_name) # "none") =>
              /\ raised' # NULL
              /\ Val(raised').type = ConfigurationError(source_file, table_name)
              /\ raw' = raw /\ cols' = cols]_vars
\* FileNotFoundError was raised on a database that holds a table.
C19_Witness ==
    /\ raised # NULL /\ Val(raised).type = "FileNotFoundError"
    /\ DOMAIN raw # {}


\* The order of the stages, and the stages that come before a stage in it
\* (the two selectors come after all others, in either order).
StageOrder ==
    <<"build_process_tables", "process_axis", "process_deck", "relate_deck_axis",
      "create_sectors", "relate_deck_pspoints", "relate_axis_pspoints",
      "deck_edge_control", "get_ns_bridge_uid", "get_ew_bridge_uid">>
Place(stage) == CHOOSE k \in 1..Len(StageOrder) : StageOrder[k] = stage
Before(stage) == {StageOrder[j] : j \in 1..(Min2(Place(stage), Len(StageOrder) - 1) - 1)}
\* The columns the statements of a stage create, and the columns of other
\* stages they read.
Creates(stage) ==
    UNION {StageStmts(stage)[i].cols : i \in 1..Len(StageStmts(stage))}
Needs(stage) ==
    UNION {StageStmts(stage)[i].reads : i \in 1..Len(StageStmts(stage))}
        \ (Creates(stage) \cup RawCols)
Tried == ran \cup err

\* C20: in the order of StageOrder no stage fails on a missing or an
\* existing column; every column that is not of a loaded layer was created
\* by a stage that was run; a stage that has not run fails as long as the
\* creator of a column it reads was not run; and a stage runs to its end
\* without an error only after the creators of all columns it reads.
NextInOrderRuns ==
    \A stage \in Stages :
        (Before(stage) \subseteq ran /\ stage \notin ran \cup err /\ err \subseteq ran) =>
            ~RunStage(stage).failed
ColumnsOfTried == cols \subseteq RawCols \cup UNION {Creates(stage) : stage \in Tried}
EarlyStageFails ==
    \A stage, creator \in Stages :
        (stage \notin Tried /\ creator \notin Tried /\ Needs(stage) \cap Creates(creator) # {}) =>
            RunStage(stage).failed
RunsAfterCreators ==
    \A stage, creator \in Stages :
        (stage \in ran' \ (ran \cup err') /\ Needs(stage) \cap Creates(creator) # {}) =>
            creator \in Tried
-----------------------------------------------------------------------------
\* C21: once relate_deck_axis has run, the rdeck of every support row is the
\* uid of a deck row that is still in the deck table: no support points to
\* a deck that was deleted for lack of an axis.
DeckPresent(u) == \E d \in deck : d.uid = u
C21_SupportsPointToDecks ==
    Ran("relate_deck_axis") =>
        \A s \in support : s.rdeck # NULL => DeckPresent(Val(s.rdeck))

\* C22: after deck_edge_control a deck with edge_check TRUE has an ascending
\* point and a descending point with rdeck = uid, so that the subquery of
\* get_ns_bridge_uid on both orbits removes no such deck; get_ns_bridge_uid
\* returns the set of the decks with orientation NS and edge_check TRUE.
NsAndChecked == {d.uid : d \in {x \in deck : x.orientation = Some("NS") /\ x.edge_check = Some(TRUE)}}
C22_BothOrbitsRedundant ==
    /\ Ran("deck_edge_control") =>
          \A d \in deck :
              d.edge_check = Some(TRUE) =>
                  /\ OwnPoints(ascending, d) # {} /\ OwnPoints(descending, d) # {}
                  /\ d.uid \in BothOrbits
    /\ Ran("get_ns_bridge_uid") => Returned(ns_uid) = NsAndChecked
\* A deck was returned while another deck, whose edge_check is FALSE, has
\* points of one orbit only: the subquery on both orbits would remove it.
C22_Witness ==
    /\ Ran("get_ns_bridge_uid")
    /\ \E d, e \in deck :
          /\ d.uid \in Returned(ns_uid)
          /\ e.orientation = Some("NS") /\ e.edge_check = Some(FALSE)
          /\ e.uid \notin BothOrbits
          /\ OwnPoints(ascending, e) \cup OwnPoints(descending, e) # {}

\* C23: for an axis loaded with exactly two distinct vertices, after
\* process_axis the end point is not south of the start point and the
\* azimuth lies in [0, 90] or in (270, 360), never in [135, 225]; a deck
\* whose axes are of this kind is NS through an azimuth in [0, 45] or in
\* [315, 360) and EW through one in (45, 90] or in (270, 315).
TwoVertices(a) == Len(raw.axis[a.uid]) = 2 /\ raw.axis[a.uid][1] # raw.axis[a.uid][2]
Between(az, lo, hi) == FracGe(az, lo) /\ FracLe(az, hi)
NorthHalf(az) == Between(az, 0, 90) \/ (~FracLe(az, 270) /\ FracLt(az, 360))
NorthBands(az) == Between(az, 0, 45) \/ (FracGe(az, 315) /\ FracLt(az, 360))
AxesUnder(d) == {a \in axis : ST_Intersects(d.geom, a.geom)}
=============================================================================
